---- MODULE Spec2Model ----
(***************************************************************************)
(* Model of the Rust market-data and execution gateway                     *)
(* (src/rust_engine/src/main.rs): the L2 order book (L2Orderbook), the     *)
(* idempotent execution engine (ExecutionEngine), the latency tracker      *)
(* (LatencyTracker, percentile) and the tasks main spawns (feed,           *)
(* processor, fill, heartbeat) with its shutdown.                          *)
(*                                                                         *)
(* Numbers.  A price is an f64 in the source and the book keys it by       *)
(* (price * 1_000_000.0) as i64, a cast that truncates toward zero.  Here  *)
(* a price is a whole number of 1/PriceDenominator currency units, with    *)
(* PriceDenominator = 2 * Scale, so that two prices share each key and     *)
(* the cast has something to truncate.  A quantity is finite: 0 (any       *)
(* quantity <= 0.0) or 1 (a quantity > 0.0).  Sequence ids and counters    *)
(* are u64 in the source; the model keeps them in small ranges far below   *)
(* u64::MAX, so no addition overflows.  Timestamps, log lines and the      *)
(* minted exchange order id are left out: no operation reads them.         *)
(*                                                                         *)
(* Tasks.  Each spawned task is a process that moves between the points    *)
(* where the source awaits or blocks; a timer or a receive timeout that    *)
(* is waited for may fire at any step.  The elapsed times the processor    *)
(* measures are one value, the price movement of a simulated tick is       *)
(* chosen freely, and the tick channel holds TickCap ticks in place of     *)
(* 100_000.  The fill channel never carries a fill: nothing sends on it.   *)
(* main's wait for the tasks to end (with its five-second limit) and the   *)
(* exit of the process are not modelled.                                   *)
(*                                                                         *)
(* State.  The comparison of two books, the tracker and main's shared      *)
(* state are one record each (fold, tracker, pipe), None where the         *)
(* scenario has no such object; their fields are read under the source's   *)
(* names.                                                                  *)
(***************************************************************************)
EXTENDS Integers, Sequences, FiniteSets, TLC

----------------------------------------------------------------------------
(* Bounds of the model *)

\* largest price that occurs (prices are 0..MaxPrice)
MaxPrice == 2
\* largest sequence id that occurs
MaxSeq == 3
\* most levels in one snapshot (bids and asks together)
MaxLevels == 1
\* most order-book calls in one run
MaxCalls == 2
\* most submit_order calls in one run
MaxSubmits == 4
\* most process_fill calls in one run
MaxFills == 2
\* most deltas given to the two books that are compared
MaxFold == 2
\* most order-book calls in a run that starts with a two-sided snapshot
MaxSeededCalls == 3
\* largest depth asked of depth()
MaxDepth == 2
\* largest capacity given to LatencyTracker::new
MaxCapacity == 2
\* most record_* calls on one tracker
MaxRecords == 3
\* most ticks the feed task generates in one run
MaxTicks == 4
\* capacity of the tick channel in the model; the program's is 100_000
TickCap == 2

(* Program constants *)

\* price_to_key multiplies by 1_000_000.0; key_to_price divides by it
Scale == 1000000
\* the idempotency set is cleared when it holds more than this many keys
KeyLimit == 100000
\* the processor task's tracker holds up to this many samples per buffer
TrackerCapacity == 50000
\* every simulated tick carries this ingestion latency (nanoseconds)
IngestionLatency == 800000

\* a price p stands for p / PriceDenominator currency units
PriceDenominator == 2 * Scale

PriceVals == 0..MaxPrice
QtyVals == {0, 1}
SeqVals == 0..MaxSeq
Levels == [price : PriceVals, quantity : QtyVals]

\* the idempotency keys the model tells apart; every other key is "unnamed"
Keys == {"K1", "K2"}

VARIABLES
    bids,              \* L2Orderbook.bids: price key -> quantity
    asks,              \* L2Orderbook.asks: price key -> quantity
    last_seq_id,       \* L2Orderbook.last_seq_id
    total_updates,     \* L2Orderbook.total_updates
    gaps_detected,     \* L2Orderbook.gaps_detected
    accepted_deltas,   \* history: sequence ids of the deltas accepted since the
                       \* book was created or last replaced by a snapshot
    submitted_keys,    \* ExecutionEngine.submitted_keys: the named keys it holds
    other_keys,        \* ... and the number of distinct unnamed keys it holds
    total_submitted,   \* ExecutionEngine.total_submitted
    total_duplicates,  \* ExecutionEngine.total_duplicates
    total_fills,       \* ExecutionEngine.total_fills
    history,           \* history: the submit_order calls made in the run, with
                       \* their results
    acks_returned,     \* history: the number of acknowledgments submit_order has
                       \* returned since the engine was created
    fill_calls,        \* history: the number of process_fill calls made since
                       \* the engine was created
    call,              \* the last call made: its arguments and what it returned
    fold,              \* the comparison of two books given the same deltas
    tracker,           \* the LatencyTracker and the number of records it took
    pipe               \* main: the flag, the counter, the tick channel and where
                       \* each task stands

bookVars == <<bids, asks, last_seq_id, total_updates, gaps_detected, accepted_deltas>>
execVars == <<submitted_keys, other_keys, total_submitted, total_duplicates,
              total_fills, history, acks_returned, fill_calls>>
foldVars == <<fold>>
trackerVars == <<tracker>>
pipeVars == <<pipe>>
vars == <<bids, asks, last_seq_id, total_updates, gaps_detected, accepted_deltas,
          submitted_keys, other_keys, total_submitted, total_duplicates,
          total_fills, history, acks_returned, fill_calls, call,
          fold, tracker, pipe>>

\* the deltas given to the two books that are compared
fold_deltas == fold.deltas
\* how many of them have been applied
fold_pos == fold.pos
\* the book that was new when it took the first delta
fold_direct == fold.direct
\* the book that took an empty snapshot first
fold_seeded == fold.seeded

\* the fields of the LatencyTracker
capacity == tracker.capacity
ingestion_samples == tracker.ingestion_samples
processing_samples == tracker.processing_samples
publish_samples == tracker.publish_samples
ticks_processed == tracker.ticks_processed
tracker_gaps == tracker.gaps_detected
nats_published == tracker.nats_published
\* history: the number of record_* calls made on the tracker
samples_recorded == tracker.samples_recorded

\* main: the running flag (AtomicBool)
running == pipe.running
\* main: the global sequence counter (AtomicU64)
global_seq == pipe.global_seq
\* main: the ticks queued in the tick channel, oldest first
tick_chan == pipe.tick_chan
\* where main and each spawned task stands
pc == pipe.pc
\* the tasks whose pending notified() future has been woken
notified == pipe.notified
\* feed task: the tick it has generated and not yet sent
feed_tick == pipe.feed_tick
\* history: the sequence ids the feed task has assigned
stamped == pipe.stamped
\* history: the sequence ids the processor has received
received == pipe.received
\* history: how many sequence ids had been assigned and how many ticks
\* received when running was set to false (None before)
at_stop == pipe.at_stop

----------------------------------------------------------------------------
(* Helpers *)

Max(S) == CHOOSE x \in S : \A y \in S : y <= x
Min(S) == CHOOSE x \in S : \A y \in S : x <= y

\* Option<T>
None == << >>
Some(v) == <<v>>

\* BTreeMap::new / clear
EmptyBook == << >>

\* BTreeMap::insert: sets the key's value, inserting or overwriting
Insert(book, key, qty) ==
    [k \in (DOMAIN book) \cup {key} |-> IF k = key THEN qty ELSE book[k]]

\* BTreeMap::remove: drops the key; nothing happens when it is absent
Remove(book, key) == [k \in (DOMAIN book) \ {key} |-> book[k]]

\* sequences over S of length at most n
SeqsUpTo(S, n) == UNION {[1..m -> S] : m \in 0..n}

----------------------------------------------------------------------------
(* L2Orderbook *)

\* (price * 1_000_000.0) as i64: the float-to-int cast truncates toward zero
price_to_key(price) ==
    IF price >= 0 THEN (price * Scale) \div PriceDenominator
    ELSE -(((-price) * Scale) \div PriceDenominator)

\* key as f64 / 1_000_000.0
key_to_price(key) == (key * PriceDenominator) \div Scale

\* the loops of apply_snapshot: insert every level in order, later levels
\* overwriting earlier ones at the same key
RECURSIVE InsertLevels(_, _)
InsertLevels(book, levels) ==
    IF levels = << >> THEN book
    ELSE InsertLevels(Insert(book, price_to_key(Head(levels).price),
                             Head(levels).quantity),
                      Tail(levels))

\* mutant of SnapshotBase: the side is not cleared
SnapshotBase_NotCleared(book) == book

\* apply_snapshot clears each side before it rebuilds it
SnapshotBase(book) == EmptyBook

\* the snapshots the model applies
Snapshots ==
    {s \in [bids : SeqsUpTo(Levels, MaxLevels), asks : SeqsUpTo(Levels, MaxLevels),
            seq_id : SeqVals] : Len(s.bids) + Len(s.asks) <= MaxLevels}

apply_snapshot(snapshot) ==
    /\ bids' = InsertLevels(SnapshotBase(bids), snapshot.bids)
    /\ asks' = InsertLevels(SnapshotBase(asks), snapshot.asks)
    /\ last_seq_id' = snapshot.seq_id
    /\ total_updates' = total_updates + 1
    /\ accepted_deltas' = {}
    /\ call' = [op |-> "apply_snapshot", snapshot |-> snapshot]
    /\ UNCHANGED <<gaps_detected, execVars, foldVars, trackerVars, pipeVars>>

\* mutant of IsGap: the check is made on a book without a prior sequence too
IsGap_AlwaysChecked(last, seq_id) == seq_id # last + 1

\* mutant of IsGap: a skipped sequence id passes the check
IsGap_BackwardOnly(last, seq_id) == last > 0 /\ seq_id < last + 1

\* mutant of IsGap: only a skipped sequence id counts as a gap
IsGap_ForwardOnly(last, seq_id) == last > 0 /\ seq_id > last + 1

\* mutant of IsGap: a repeated sequence id passes the check
IsGap_RepeatPasses(last, seq_id) == last > 0 /\ seq_id # last + 1 /\ seq_id # last

\* the sequence check of apply_delta: a gap when a prior sequence exists and
\* seq_id is not its successor
IsGap(last, seq_id) == last > 0 /\ seq_id # last + 1

\* mutant of DeltaOnBids: the sides are swapped
DeltaOnBids_Swapped(is_bid) == ~is_bid

\* the book side a delta names
DeltaOnBids(is_bid) == is_bid

\* mutant of UpdateLevel: a quantity of zero is stored, not removed
UpdateLevel_ZeroStored(book, key, qty) ==
    IF qty < 0 THEN Remove(book, key) ELSE Insert(book, key, qty)

\* the level update of apply_delta
UpdateLevel(book, key, qty) ==
    IF qty <= 0 THEN Remove(book, key) ELSE Insert(book, key, qty)

apply_delta(price, qty, is_bid, seq_id) ==
    /\ IF IsGap(last_seq_id, seq_id)
       THEN /\ gaps_detected' = gaps_detected + 1
            /\ call' = [op |-> "apply_delta", price |-> price, qty |-> qty,
                        is_bid |-> is_bid, seq_id |-> seq_id, ret |-> FALSE]
            /\ UNCHANGED <<bids, asks, last_seq_id, total_updates, accepted_deltas>>
       ELSE /\ IF DeltaOnBids(is_bid)
               THEN /\ bids' = UpdateLevel(bids, price_to_key(price), qty)
                    /\ asks' = asks
               ELSE /\ asks' = UpdateLevel(asks, price_to_key(price), qty)
                    /\ bids' = bids
            /\ last_seq_id' = seq_id
            /\ total_updates' = total_updates + 1
            /\ accepted_deltas' = accepted_deltas \cup {seq_id}
            /\ call' = [op |-> "apply_delta", price |-> price, qty |-> qty,
                        is_bid |-> is_bid, seq_id |-> seq_id, ret |-> TRUE]
            /\ UNCHANGED gaps_detected
    /\ UNCHANGED <<execVars, foldVars, trackerVars, pipeVars>>

best_bid == IF DOMAIN bids = {} THEN None ELSE Some(key_to_price(Max(DOMAIN bids)))

best_ask == IF DOMAIN asks = {} THEN None ELSE Some(key_to_price(Min(DOMAIN asks)))

\* (bid + ask) / 2.0: key_to_price yields whole multiples of PriceDenominator /
\* Scale = 2, so the division is exact here
mid_price ==
    IF best_bid # None /\ best_ask # None
    THEN Some((best_bid[1] + best_ask[1]) \div 2)
    ELSE None

\* mutant of spread_bps: the guard bid > 0.0 is left out
spread_bps_Unguarded ==
    IF best_bid # None /\ best_ask # None
    THEN Some([num |-> (best_ask[1] - best_bid[1]) * 10000, den |-> best_bid[1]])
    ELSE None

\* (ask - bid) / bid * 10_000.0, kept as the fraction num / den
spread_bps ==
    IF best_bid # None /\ best_ask # None /\ best_bid[1] > 0
    THEN Some([num |-> (best_ask[1] - best_bid[1]) * 10000, den |-> best_bid[1]])
    ELSE None

\* iter().take(n) and iter().rev().take(n) on a BTreeMap: the n first levels
\* in ascending (descending) key order, fewer when the map is smaller
RECURSIVE TakeLevels(_, _, _)
TakeLevels(book, n, descending) ==
    IF n = 0 \/ DOMAIN book = {} THEN << >>
    ELSE LET k == IF descending THEN Max(DOMAIN book) ELSE Min(DOMAIN book)
         IN  <<[price |-> key_to_price(k), quantity |-> book[k]]>>
                 \o TakeLevels(Remove(book, k), n - 1, descending)

depth(levels) ==
    [bids |-> TakeLevels(bids, levels, TRUE), asks |-> TakeLevels(asks, levels, FALSE)]

\* a reader calls the five queries (all take &self) and keeps what they return
queries(levels) ==
    /\ call' = [op |-> "queries", levels |-> levels, best_bid |-> best_bid,
                best_ask |-> best_ask, mid_price |-> mid_price,
                spread_bps |-> spread_bps, depth |-> depth(levels)]
    /\ UNCHANGED <<bookVars, execVars, foldVars, trackerVars, pipeVars>>

(* The order book as a value, for the places that hold a book of their own:  *)
(* the same operations, returning the book they leave.                       *)

\* L2Orderbook::new
L2Orderbook_new ==
    [bids |-> EmptyBook, asks |-> EmptyBook, last_seq_id |-> 0,
     total_updates |-> 0, gaps_detected |-> 0]

\* apply_snapshot on the book b
book_after_snapshot(b, snapshot) ==
    [bids |-> InsertLevels(SnapshotBase(b.bids), snapshot.bids),
     asks |-> InsertLevels(SnapshotBase(b.asks), snapshot.asks),
     last_seq_id |-> snapshot.seq_id,
     total_updates |-> b.total_updates + 1,
     gaps_detected |-> b.gaps_detected]

\* apply_delta on the book b: the book it leaves and the value it returns
book_after_delta(b, price, qty, is_bid, seq_id) ==
    IF IsGap(b.last_seq_id, seq_id)
    THEN [book |-> [b EXCEPT !.gaps_detected = @ + 1], ret |-> FALSE]
    ELSE [book |-> [b EXCEPT
                      !.bids = IF DeltaOnBids(is_bid)
                               THEN UpdateLevel(@, price_to_key(price), qty) ELSE @,
                      !.asks = IF DeltaOnBids(is_bid)
                               THEN @ ELSE UpdateLevel(@, price_to_key(price), qty),
                      !.last_seq_id = seq_id,
                      !.total_updates = @ + 1],
          ret |-> TRUE]

----------------------------------------------------------------------------
(* ExecutionEngine *)

(* submitted_keys is a HashSet<String>.  The model holds the named keys of  *)
(* the set as a set and the other keys it holds as a count: unnamed keys    *)
(* differ from each other and from the named ones, and a request carries    *)
(* either a named key, an unnamed key the set holds (OtherHeld) or an       *)
(* unnamed key it does not hold (OtherNew).                                 *)
OtherHeld == "other-held"
OtherNew == "other-new"
RequestKeys == Keys \cup {OtherHeld, OtherNew}

\* the fields of an OrderRequest that the engine reads
Requests == [idempotency_key : RequestKeys, quantity : {1, 2}, price : {3, 4}]

\* submitted_keys.len()
KeysLen(named, others) == Cardinality(named) + others

\* mutant of Contains: the idempotency check is skipped
Contains_Never(named, key) == FALSE

\* submitted_keys.contains(&req.idempotency_key)
Contains(named, key) == IF key \in Keys THEN key \in named ELSE key = OtherHeld

\* mutant of CountDuplicate: the duplicate is not counted
CountDuplicate_Forgotten(n) == n

\* self.total_duplicates += 1
CountDuplicate(n) == n + 1

\* mutant of OverCapacity: the set is cleared on reaching the limit
OverCapacity_AtLimit(len) == len >= KeyLimit

\* self.submitted_keys.len() > 100_000
OverCapacity(len) == len > KeyLimit

submit_order(req) ==
    /\ Len(history) < MaxSubmits
    /\ req.idempotency_key = OtherHeld => other_keys > 0
    /\ IF Contains(submitted_keys, req.idempotency_key)
       THEN /\ total_duplicates' = CountDuplicate(total_duplicates)
            /\ call' = [op |-> "submit_order", req |-> req,
                        ret |-> [ok |-> FALSE, err |-> "DUPLICATE_ORDER"]]
            /\ history' = Append(history, [key |-> req.idempotency_key,
                                           ok |-> FALSE, cleared |-> FALSE])
            /\ UNCHANGED <<submitted_keys, other_keys, total_submitted,
                           acks_returned>>
       ELSE LET named == IF req.idempotency_key \in Keys
                         THEN submitted_keys \cup {req.idempotency_key}
                         ELSE submitted_keys
                others == IF req.idempotency_key \in Keys
                          THEN other_keys ELSE other_keys + 1
                clear == OverCapacity(KeysLen(named, others))
            IN  /\ submitted_keys' = IF clear THEN {} ELSE named
                /\ other_keys' = IF clear THEN 0 ELSE others
                /\ total_submitted' = total_submitted + 1
                /\ acks_returned' = acks_returned + 1
                /\ call' = [op |-> "submit_order", req |-> req,
                            ret |-> [ok |-> TRUE, status |-> "SUBMITTED"]]
                /\ history' = Append(history, [key |-> req.idempotency_key,
                                               ok |-> TRUE, cleared |-> clear])
                /\ UNCHANGED total_duplicates
    /\ UNCHANGED <<total_fills, fill_calls, bookVars, foldVars, trackerVars, pipeVars>>

\* mutant of process_fill: the fill takes the counter's value before the
\* increment
process_fill_SeqBefore(req) ==
    /\ total_fills < MaxFills
    /\ total_fills' = total_fills + 1
    /\ fill_calls' = fill_calls + 1
    /\ call' = [op |-> "process_fill", req |-> req,
                ret |-> [filled_qty |-> req.quantity, fill_price |-> req.price,
                         seq_id |-> total_fills]]
    /\ UNCHANGED <<submitted_keys, other_keys, total_submitted, total_duplicates,
                   acks_returned, history, bookVars, foldVars, trackerVars,
                   pipeVars>>

process_fill(req) ==
    /\ total_fills < MaxFills
    /\ total_fills' = total_fills + 1
    /\ fill_calls' = fill_calls + 1
    /\ call' = [op |-> "process_fill", req |-> req,
                ret |-> [filled_qty |-> req.quantity, fill_price |-> req.price,
                         seq_id |-> total_fills + 1]]
    /\ UNCHANGED <<submitted_keys, other_keys, total_submitted, total_duplicates,
                   acks_returned, history, bookVars, foldVars, trackerVars,
                   pipeVars>>

\* stats()
stats == <<total_submitted, total_duplicates, total_fills>>

----------------------------------------------------------------------------
(* LatencyTracker *)

\* the latencies recorded (nanoseconds, i64)
Latencies == {1, 2, 3}

\* the percentiles asked for; the periodic report asks for 50 and 99
Pcts == {0, 50, 99, 100}

\* Vec::drain(0..n): drops the n first (oldest) elements
Drain(samples, n) == SubSeq(samples, n + 1, Len(samples))

\* self.capacity / 2 (usize division)
DrainCount(cap) == cap \div 2

\* push, then "if len > capacity { drain(0..capacity / 2) }"
PushSample(samples, latency_ns, cap) ==
    LET pushed == Append(samples, latency_ns)
    IN  IF Len(pushed) > cap THEN Drain(pushed, DrainCount(cap)) ELSE pushed

\* LatencyTracker::new(cap), no record made yet
LatencyTracker_new(cap) ==
    [capacity |-> cap, ingestion_samples |-> << >>, processing_samples |-> << >>,
     publish_samples |-> << >>, ticks_processed |-> 0, gaps_detected |-> 0,
     nats_published |-> 0, samples_recorded |-> 0]

\* the tracker t after record_ingestion, record_processing, record_publish
after_record_ingestion(t, latency_ns) ==
    [t EXCEPT !.ingestion_samples = PushSample(@, latency_ns, t.capacity),
              !.ticks_processed = @ + 1,
              !.samples_recorded = @ + 1]

after_record_processing(t, latency_ns) ==
    [t EXCEPT !.processing_samples = PushSample(@, latency_ns, t.capacity),
              !.samples_recorded = @ + 1]

after_record_publish(t, latency_ns) ==
    [t EXCEPT !.publish_samples = PushSample(@, latency_ns, t.capacity),
              !.nats_published = @ + 1,
              !.samples_recorded = @ + 1]

record_ingestion(latency_ns) ==
    /\ tracker' = after_record_ingestion(tracker, latency_ns)
    /\ call' = [op |-> "record_ingestion", latency_ns |-> latency_ns]
    /\ UNCHANGED <<bookVars, execVars, foldVars, pipeVars>>

record_processing(latency_ns) ==
    /\ tracker' = after_record_processing(tracker, latency_ns)
    /\ call' = [op |-> "record_processing", latency_ns |-> latency_ns]
    /\ UNCHANGED <<bookVars, execVars, foldVars, pipeVars>>

record_publish(latency_ns) ==
    /\ tracker' = after_record_publish(tracker, latency_ns)
    /\ call' = [op |-> "record_publish", latency_ns |-> latency_ns]
    /\ UNCHANGED <<bookVars, execVars, foldVars, pipeVars>>

\* sorted.sort(): the elements in ascending order (insertion of each element
\* behind the elements not greater than it)
RECURSIVE SortAscending(_)
SortAscending(samples) ==
    IF samples = << >> THEN << >>
    ELSE LET rest == SortAscending(Tail(samples))
             x == Head(samples)
             below == {i \in 1..Len(rest) : rest[i] <= x}
             n == Cardinality(below)
         IN  SubSeq(rest, 1, n) \o <<x>> \o SubSeq(rest, n + 1, Len(rest))

\* mutant of PercentileIndex: the index is taken over n - 1
PercentileIndex_Short(pct, n) == Min({(pct * (n - 1)) \div 100, n - 1})

\* (pct * sorted.len() / 100).min(sorted.len() - 1)
PercentileIndex(pct, n) == Min({(pct * n) \div 100, n - 1})

\* percentile(samples, pct); a Rust slice index i is the TLA+ index i + 1
percentile(samples, pct) ==
    IF samples = << >> THEN 0
    ELSE SortAscending(samples)[PercentileIndex(pct, Len(samples)) + 1]

\* a reader takes a percentile of one of the three buffers (a shared borrow)
percentile_of(buffer, pct) ==
    /\ call' = [op |-> "percentile", buffer |-> buffer, pct |-> pct,
                ret |-> percentile(buffer, pct)]
    /\ UNCHANGED <<bookVars, execVars, foldVars, trackerVars, pipeVars>>

----------------------------------------------------------------------------
(* main: the feed, processor, fill and heartbeat tasks, and shutdown *)

Tasks == {"main", "feed", "proc", "fill", "hb"}
Stages == Tasks \ {"main"}

\* the tasks that wait on shutdown.notified() in a select!
Waiters == {"feed", "hb"}

\* the price movement of a simulated tick (a function of seq in the source)
Jitters == {0, 1}

\* the elapsed times the processor measures (proc_ns, pub_ns)
MeasuredLatencies == {1}

NoTick == << >>

\* generate_simulated_tick: bid below ask by twice the spread, both sizes
\* positive (1.5 + ...), the sequence id as given
generate_simulated_tick(seq, jitter) ==
    [seq_id |-> seq, bid_price |-> 2 * jitter, ask_price |-> 2 * jitter + 4,
     bid_size |-> 1, ask_size |-> 1, ingestion_latency_ns |-> IngestionLatency]

\* task t stands at label
At(t, label) == pc[t] = label

\* the pipeline state with task t moved to label
Goto(t, label) == [pipe EXCEPT !.pc[t] = label]

\* mutant of NextMessage: the newest message is received first
NextMessage_Newest(chan) == chan[Len(chan)]

\* the message a receive takes from a crossbeam channel: the oldest
NextMessage(chan) == Head(chan)

\* the channel without the message NextMessage takes
RECURSIVE WithoutMessage(_, _)
WithoutMessage(chan, m) ==
    IF chan = << >> THEN << >>
    ELSE IF Head(chan) = m THEN Tail(chan)
    ELSE <<Head(chan)>> \o WithoutMessage(Tail(chan), m)

\* mutant of NextSeq: the counter is not advanced
NextSeq_Stuck(seq) == seq

\* fetch_add(1): the counter's next value
NextSeq(seq) == seq + 1

\* mutant of AskSeq: the ask delta takes the bid delta's sequence id
AskSeq_SameAsBid(seq_id) == seq_id * 2

\* mutant of BidSeq: the bid delta takes the ask delta's sequence id
BidSeq_SameAsAsk(seq_id) == seq_id * 2 + 1

\* the sequence ids the processor gives the two deltas of a tick
BidSeq(seq_id) == seq_id * 2
AskSeq(seq_id) == seq_id * 2 + 1

\* the processor's order book, as a value
Book ==
    [bids |-> bids, asks |-> asks, last_seq_id |-> last_seq_id,
     total_updates |-> total_updates, gaps_detected |-> gaps_detected]

(* feed task: select! { shutdown.notified() => break, tick_interval.tick() => *)
(* { check running; stamp; try_send } }                                      *)

\* the notified() branch is taken
feed_notified ==
    /\ At("feed", "select")
    /\ "feed" \in notified
    /\ pipe' = [Goto("feed", "stopped") EXCEPT !.notified = @ \ {"feed"}]
    /\ UNCHANGED <<call, bookVars, execVars, foldVars, trackerVars>>

\* the tick branch is taken; the pending notified() future is dropped
feed_tick_fires ==
    /\ At("feed", "select")
    /\ global_seq < MaxTicks \/ ~running
    /\ pipe' = [Goto("feed", "ticked") EXCEPT !.notified = @ \ {"feed"}]
    /\ UNCHANGED <<call, bookVars, execVars, foldVars, trackerVars>>

\* if !running_feed.load() { break; }
feed_check ==
    /\ At("feed", "ticked")
    /\ pipe' = Goto("feed", IF running THEN "stamp" ELSE "stopped")
    /\ UNCHANGED <<call, bookVars, execVars, foldVars, trackerVars>>

\* seq_feed.fetch_add(1) and generate_simulated_tick(seq, base_price)
feed_stamp ==
    /\ At("feed", "stamp")
    /\ \E jitter \in Jitters :
          pipe' = [Goto("feed", "send") EXCEPT
                     !.feed_tick = generate_simulated_tick(global_seq, jitter),
                     !.global_seq = NextSeq(@),
                     !.stamped = Append(@, global_seq)]
    /\ UNCHANGED <<call, bookVars, execVars, foldVars, trackerVars>>

\* tick_tx_clone.try_send(tick): Disconnected once the processor task (the only
\* receiver) has ended, Full when the channel holds TickCap ticks, Ok otherwise
feed_send ==
    /\ At("feed", "send")
    /\ pipe' = IF At("proc", "stopped")
               THEN [Goto("feed", "stopped") EXCEPT !.feed_tick = NoTick]
               ELSE [Goto("feed", "select") EXCEPT
                       !.tick_chan = IF Len(@) < TickCap
                                     THEN Append(@, feed_tick) ELSE @,
                       !.feed_tick = NoTick]
    /\ UNCHANGED <<call, bookVars, execVars, foldVars, trackerVars>>

(* processor task: loop { recv_timeout(50 ms); ...; check running }.  The     *)
(* periodic report between the two only reads the tracker and the book.      *)

\* Ok(tick): both deltas, the gap count, the three latency records
proc_recv ==
    /\ At("proc", "recv")
    /\ tick_chan # << >>
    /\ LET tick == NextMessage(tick_chan)
           bid_delta == [price |-> tick.bid_price, qty |-> tick.bid_size,
                         is_bid |-> TRUE, seq_id |-> BidSeq(tick.seq_id)]
           ask_delta == [price |-> tick.ask_price, qty |-> tick.ask_size,
                         is_bid |-> FALSE, seq_id |-> AskSeq(tick.seq_id)]
           bid == book_after_delta(Book, bid_delta.price, bid_delta.qty,
                                   bid_delta.is_bid, bid_delta.seq_id)
           ask == book_after_delta(bid.book, ask_delta.price, ask_delta.qty,
                                   ask_delta.is_bid, ask_delta.seq_id)
           counted == IF ~bid.ret \/ ~ask.ret
                      THEN [tracker EXCEPT !.gaps_detected = @ + 1] ELSE tracker
       IN  /\ bids' = ask.book.bids
           /\ asks' = ask.book.asks
           /\ last_seq_id' = ask.book.last_seq_id
           /\ total_updates' = ask.book.total_updates
           /\ gaps_detected' = ask.book.gaps_detected
           /\ accepted_deltas' = accepted_deltas
                   \cup (IF bid.ret THEN {bid_delta.seq_id} ELSE {})
                   \cup (IF ask.ret THEN {ask_delta.seq_id} ELSE {})
           /\ \E proc_ns \in MeasuredLatencies, pub_ns \in MeasuredLatencies :
                 tracker' = after_record_publish(
                                after_record_ingestion(
                                    after_record_processing(counted, proc_ns),
                                    tick.ingestion_latency_ns),
                                pub_ns)
           /\ pipe' = [Goto("proc", "check") EXCEPT
                         !.tick_chan = WithoutMessage(@, tick),
                         !.received = Append(@, tick.seq_id)]
           /\ call' = [op |-> "process_tick", tick |-> tick,
                       deltas |-> <<bid_delta, ask_delta>>,
                       bid_ok |-> bid.ret, ask_ok |-> ask.ret]
    /\ UNCHANGED <<execVars, foldVars>>

\* Err(Timeout): no tick arrived within 50 ms
proc_timeout ==
    /\ At("proc", "recv")
    /\ tick_chan = << >>
    /\ pipe' = Goto("proc", "check")
    /\ UNCHANGED <<call, bookVars, execVars, foldVars, trackerVars>>

\* mutant of proc_check: the running flag is not read
proc_check_IgnoresFlag ==
    /\ At("proc", "check")
    /\ pipe' = Goto("proc", "recv")
    /\ UNCHANGED <<call, bookVars, execVars, foldVars, trackerVars>>

\* if !running_proc.load() { break; }
proc_check ==
    /\ At("proc", "check")
    /\ pipe' = Goto("proc", IF running THEN "recv" ELSE "stopped")
    /\ UNCHANGED <<call, bookVars, execVars, foldVars, trackerVars>>

(* fill task: loop { fill_rx.recv_timeout(100 ms); check running }.  Nothing  *)
(* sends on the fill channel, and main keeps its sender, so every receive    *)
(* times out.                                                                *)

fill_timeout ==
    /\ At("fill", "recv")
    /\ pipe' = Goto("fill", "check")
    /\ UNCHANGED <<call, bookVars, execVars, foldVars, trackerVars>>

\* mutant of fill_check: the running flag is not read
fill_check_IgnoresFlag ==
    /\ At("fill", "check")
    /\ pipe' = Goto("fill", "recv")
    /\ UNCHANGED <<call, bookVars, execVars, foldVars, trackerVars>>

fill_check ==
    /\ At("fill", "check")
    /\ pipe' = Goto("fill", IF running THEN "recv" ELSE "stopped")
    /\ UNCHANGED <<call, bookVars, execVars, foldVars, trackerVars>>

(* heartbeat task: select! { shutdown.notified() => break, interval.tick() => *)
(* { check running } }                                                       *)

hb_notified ==
    /\ At("hb", "select")
    /\ "hb" \in notified
    /\ pipe' = [Goto("hb", "stopped") EXCEPT !.notified = @ \ {"hb"}]
    /\ UNCHANGED <<call, bookVars, execVars, foldVars, trackerVars>>

hb_tick_fires ==
    /\ At("hb", "select")
    /\ pipe' = [Goto("hb", "ticked") EXCEPT !.notified = @ \ {"hb"}]
    /\ UNCHANGED <<call, bookVars, execVars, foldVars, trackerVars>>

hb_check ==
    /\ At("hb", "ticked")
    /\ pipe' = Goto("hb", IF running THEN "select" ELSE "stopped")
    /\ UNCHANGED <<call, bookVars, execVars, foldVars, trackerVars>>

(* main: ctrl_c().await; running.store(false); shutdown.notify_waiters()      *)

running_store ==
    /\ At("main", "ctrl_c")
    /\ pipe' = [Goto("main", "stored") EXCEPT
                  !.running = FALSE,
                  !.at_stop = [stamped |-> Len(stamped),
                               received |-> Len(received)]]
    /\ UNCHANGED <<call, bookVars, execVars, foldVars, trackerVars>>

\* notify_waiters wakes the notified() futures that exist at this instant and
\* stores no permit for a later one
notify_waiters ==
    /\ At("main", "stored")
    /\ pipe' = [Goto("main", "join") EXCEPT
                  !.notified = {t \in Waiters : At(t, "select")}]
    /\ UNCHANGED <<call, bookVars, execVars, foldVars, trackerVars>>

----------------------------------------------------------------------------
(* Specifications *)

\* L2Orderbook::new
BookNew ==
    /\ bids = EmptyBook
    /\ asks = EmptyBook
    /\ last_seq_id = 0
    /\ total_updates = 0
    /\ gaps_detected = 0
    /\ accepted_deltas = {}

\* ExecutionEngine::new
EngineNew ==
    /\ submitted_keys = {}
    /\ other_keys = 0
    /\ total_submitted = 0
    /\ total_duplicates = 0
    /\ total_fills = 0
    /\ history = << >>
    /\ acks_returned = 0
    /\ fill_calls = 0

\* no comparison of two books is under way
FoldIdle == fold = None

\* no LatencyTracker has been created (main creates one in the processor task)
TrackerIdle == tracker = None

\* LatencyTracker::new(cap)
TrackerNew(cap) == tracker = LatencyTracker_new(cap)

\* the flag, the counter and the channel as main creates them, the tasks
\* standing at labels
PipeNew(labels) ==
    pipe = [running |-> TRUE, global_seq |-> 0, tick_chan |-> << >>,
            pc |-> labels, notified |-> {}, feed_tick |-> NoTick,
            stamped |-> << >>, received |-> << >>, at_stop |-> None]

\* main has not run: no flag, counter, channel or task
PipeIdle == pipe = None

\* L2Orderbook::new and ExecutionEngine::new
Init ==
    /\ bids = EmptyBook
    /\ asks = EmptyBook
    /\ last_seq_id = 0
    /\ total_updates = 0
    /\ gaps_detected = 0
    /\ accepted_deltas = {}
    /\ submitted_keys = {}
    /\ other_keys = 0
    /\ total_submitted = 0
    /\ total_duplicates = 0
    /\ total_fills = 0
    /\ history = << >>
    /\ acks_returned = 0
    /\ fill_calls = 0
    /\ call = [op |-> "new"]
    /\ FoldIdle
    /\ TrackerIdle
    /\ PipeIdle

\* the order-book calls made so far (every call adds to one of the counters)
BookCalls == total_updates + gaps_detected

SnapshotStep ==
    /\ BookCalls < MaxCalls
    /\ \E snapshot \in Snapshots : apply_snapshot(snapshot)

DeltaStep ==
    /\ BookCalls < MaxCalls
    /\ \E price \in PriceVals, qty \in QtyVals, is_bid \in BOOLEAN, seq_id \in SeqVals :
          apply_delta(price, qty, is_bid, seq_id)

\* one order book under any sequence of snapshots and deltas
NextBook == SnapshotStep \/ DeltaStep

SpecBook == Init /\ [][NextBook]_vars

\* a new order book under deltas alone
NextDeltas == DeltaStep

SpecDeltas == Init /\ [][NextDeltas]_vars

\* the numbers of unnamed keys an engine holds when a run starts
Prefills == {0, KeyLimit - 1, KeyLimit}

\* a new book, and an engine that is new or has accepted KeyLimit - 1 or KeyLimit
\* orders with distinct unnamed keys (no duplicate and no fill so far)
InitExec ==
    /\ bids = EmptyBook
    /\ asks = EmptyBook
    /\ last_seq_id = 0
    /\ total_updates = 0
    /\ gaps_detected = 0
    /\ accepted_deltas = {}
    /\ submitted_keys = {}
    /\ other_keys \in Prefills
    /\ total_submitted = other_keys
    /\ total_duplicates = 0
    /\ total_fills = 0
    /\ history = << >>
    /\ acks_returned = other_keys
    /\ fill_calls = 0
    /\ call = [op |-> "new"]
    /\ FoldIdle
    /\ TrackerIdle
    /\ PipeIdle

SubmitStep == \E req \in Requests : submit_order(req)

FillStep == \E req \in Requests : process_fill(req)

\* one execution engine under any sequence of submissions and fills
NextExec == SubmitStep \/ FillStep

SpecExec == InitExec /\ [][NextExec]_vars

(* Two books given the same deltas, one of them after an empty snapshot *)

\* what a delta carries besides its sequence id
DeltaBodies == [price : PriceVals, qty : QtyVals, is_bid : BOOLEAN]

\* the gap-free runs of at most MaxFold deltas whose first sequence id is first
GapFreeDeltas(first) ==
    UNION {{[i \in 1..n |-> [price |-> body[i].price, qty |-> body[i].qty,
                              is_bid |-> body[i].is_bid, seq_id |-> first + i - 1]]
              : body \in [1..n -> DeltaBodies]} : n \in 1..MaxFold}

\* the first sequence id is at least 1, so that the snapshot's sequence id
\* (one less) is a u64
InitFold ==
    /\ BookNew
    /\ EngineNew
    /\ call = [op |-> "new"]
    /\ \E first \in 1..MaxSeq : \E deltas \in GapFreeDeltas(first) :
          fold = [deltas |-> deltas, pos |-> 0,
                  direct |-> L2Orderbook_new, seeded |-> L2Orderbook_new]
    /\ TrackerIdle
    /\ PipeIdle

\* the second book takes the empty snapshot
FoldSeed ==
    /\ fold_seeded.total_updates = 0
    /\ fold' = [fold EXCEPT !.seeded =
                   book_after_snapshot(@, [bids |-> << >>, asks |-> << >>,
                                           seq_id |-> fold_deltas[1].seq_id - 1])]
    /\ UNCHANGED <<call, bookVars, execVars, trackerVars, pipeVars>>

\* both books take the next delta
FoldDelta ==
    /\ fold_seeded.total_updates > 0
    /\ fold_pos < Len(fold_deltas)
    /\ LET d == fold_deltas[fold_pos + 1]
       IN  fold' = [fold EXCEPT
                      !.direct = book_after_delta(@, d.price, d.qty,
                                                  d.is_bid, d.seq_id).book,
                      !.seeded = book_after_delta(@, d.price, d.qty,
                                                  d.is_bid, d.seq_id).book,
                      !.pos = @ + 1]
    /\ UNCHANGED <<call, bookVars, execVars, trackerVars, pipeVars>>

NextFold == FoldSeed \/ FoldDelta

SpecFold == InitFold /\ [][NextFold]_vars

(* One order book that takes a two-sided snapshot first, then deltas, and is *)
(* read by the queries at any time                                           *)

\* the snapshots with one bid and one ask
TwoSidedSnapshots ==
    {[bids |-> <<bid>>, asks |-> <<ask>>, seq_id |-> seq_id]
        : bid \in Levels, ask \in Levels, seq_id \in SeqVals}

SeededSnapshotStep ==
    /\ BookCalls = 0
    /\ \E snapshot \in TwoSidedSnapshots : apply_snapshot(snapshot)

SeededDeltaStep ==
    /\ 0 < BookCalls
    /\ BookCalls < MaxSeededCalls
    /\ \E price \in PriceVals, qty \in QtyVals, is_bid \in BOOLEAN, seq_id \in SeqVals :
          apply_delta(price, qty, is_bid, seq_id)

QueryStep == \E levels \in 0..MaxDepth : queries(levels)

NextSeeded == SeededSnapshotStep \/ SeededDeltaStep \/ QueryStep

SpecSeeded == Init /\ [][NextSeeded]_vars

(* One latency tracker under any sequence of records, read by percentile *)

InitTracker ==
    /\ BookNew
    /\ EngineNew
    /\ call = [op |-> "new"]
    /\ FoldIdle
    /\ \E cap \in 0..MaxCapacity : TrackerNew(cap)
    /\ PipeIdle

RecordIngestionStep ==
    /\ samples_recorded < MaxRecords
    /\ \E latency_ns \in Latencies : record_ingestion(latency_ns)

RecordProcessingStep ==
    /\ samples_recorded < MaxRecords
    /\ \E latency_ns \in Latencies : record_processing(latency_ns)

RecordPublishStep ==
    /\ samples_recorded < MaxRecords
    /\ \E latency_ns \in Latencies : record_publish(latency_ns)

PercentileStep ==
    \E buffer \in {ingestion_samples, processing_samples, publish_samples},
       pct \in Pcts : percentile_of(buffer, pct)

NextTracker ==
    RecordIngestionStep \/ RecordProcessingStep \/ RecordPublishStep \/ PercentileStep

SpecTracker == InitTracker /\ [][NextTracker]_vars

(* The gateway: the four tasks and main, from the moment all tasks wait for  *)
(* the first time                                                            *)

InitPipeline ==
    /\ BookNew
    /\ EngineNew
    /\ call = [op |-> "new"]
    /\ FoldIdle
    /\ TrackerNew(TrackerCapacity)
    /\ PipeNew([t \in Tasks |->
                  IF t = "main" THEN "ctrl_c"
                  ELSE IF t \in Waiters THEN "select" ELSE "recv"])

FeedTask == feed_notified \/ feed_tick_fires \/ feed_check \/ feed_stamp \/ feed_send

ProcessorTask == proc_recv \/ proc_timeout \/ proc_check

FillTask == fill_timeout \/ fill_check

HeartbeatTask == hb_notified \/ hb_tick_fires \/ hb_check

Shutdown == running_store \/ notify_waiters

NextPipeline == FeedTask \/ ProcessorTask \/ FillTask \/ HeartbeatTask \/ Shutdown

SpecPipeline == InitPipeline /\ [][NextPipeline]_vars

\* every task is scheduled again and again, and every timer and receive
\* timeout that is waited for fires
SpecPipelineFair ==
    /\ SpecPipeline
    /\ WF_vars(FeedTask)
    /\ WF_vars(ProcessorTask)
    /\ WF_vars(FillTask)
    /\ WF_vars(HeartbeatTask)

----------------------------------------------------------------------------
(* Claims about the order book *)

\* a book step: the call just made is call', the book before it is unprimed
DeltaMade == call'.op = "apply_delta"
SnapshotMade == call'.op = "apply_snapshot"

\* C1: on a book with last_seq_id > 0, apply_delta with seq_id other than
\* last_seq_id + 1 returns false, adds exactly 1 to the gap counter and leaves
\* bids, asks, last_seq_id and the update counter as they were.
C1_GapRejected ==
    [][(DeltaMade /\ last_seq_id > 0 /\ call'.seq_id # last_seq_id + 1)
        => /\ call'.ret = FALSE
           /\ gaps_detected' = gaps_detected + 1
           /\ bids' = bids
           /\ asks' = asks
           /\ last_seq_id' = last_seq_id
           /\ total_updates' = total_updates]_vars

\* C1 witness: after a snapshot at sequence 1 holding a level, a delta at
\* sequence 3 (skipping 2) has been rejected.
C1_Witness ==
    /\ call.op = "apply_delta"
    /\ call.seq_id = 3
    /\ call.ret = FALSE
    /\ last_seq_id = 1
    /\ gaps_detected = 1
    /\ total_updates = 1
    /\ DOMAIN bids # {}

Crossed == DOMAIN bids # {} /\ DOMAIN asks # {} /\ best_bid[1] >= best_ask[1]

LevelKeys(levels) == {price_to_key(levels[i].price) : i \in 1..Len(levels)}

\* the input of the call just made keeps the two sides apart: a snapshot whose
\* bid keys are all below its ask keys; a delta that is rejected, removes a
\* level, or sets a level strictly inside the opposite side's best key
KeepsSidesApart ==
    \/ /\ SnapshotMade
       /\ \A b \in LevelKeys(call'.snapshot.bids) :
            \A a \in LevelKeys(call'.snapshot.asks) : b < a
    \/ /\ DeltaMade
       /\ ~Crossed
       /\ \/ call'.ret = FALSE
          \/ call'.qty <= 0
          \/ /\ call'.is_bid
             /\ \A a \in DOMAIN asks : price_to_key(call'.price) < a
          \/ /\ ~call'.is_bid
             /\ \A b \in DOMAIN bids : b < price_to_key(call'.price)

C4_SeqNeverDecreases == [][last_seq_id' >= last_seq_id]_vars

\* C4 as amended: apply_delta never decreases last_seq_id, and apply_snapshot
\* sets it to the snapshot's sequence id whatever it was before.
C4_DeltaNeverDecreases ==
    [][/\ DeltaMade => last_seq_id' >= last_seq_id
       /\ SnapshotMade => last_seq_id' = call'.snapshot.seq_id]_vars

\* C4 witness: a delta accepted on a book that already had a sequence id.
C4_Witness ==
    /\ call.op = "apply_delta"
    /\ call.ret = TRUE
    /\ accepted_deltas = {2, 3}
    /\ last_seq_id = 3

\* C5 as claimed: with no snapshot, every accepted delta has a sequence id
\* strictly greater than that of every delta accepted before it.
C5_StrictlyIncreasing ==
    [][(DeltaMade /\ call'.ret = TRUE)
        => \A s \in accepted_deltas : call'.seq_id > s]_vars

\* the side of the book a delta names, before and after the call
NamedSide == IF call'.is_bid THEN bids ELSE asks
NamedSideAfter == IF call'.is_bid THEN bids' ELSE asks'
OppositeSide == IF call'.is_bid THEN asks ELSE bids
OppositeSideAfter == IF call'.is_bid THEN asks' ELSE bids'

\* C6: an accepted apply_delta with quantity <= 0 removes the level at that
\* price from the named side (nothing changes when it is absent), with
\* quantity > 0 it sets the price's quantity; the opposite side and the gap
\* counter are unchanged, last_seq_id becomes seq_id, total_updates grows by 1.
C6_AcceptedDelta ==
    [][(DeltaMade /\ call'.ret = TRUE)
        => LET key == price_to_key(call'.price)
           IN  /\ call'.qty <= 0 =>
                     /\ DOMAIN NamedSideAfter = (DOMAIN NamedSide) \ {key}
                     /\ key \notin DOMAIN NamedSide => NamedSideAfter = NamedSide
               /\ call'.qty > 0 =>
                     /\ DOMAIN NamedSideAfter = (DOMAIN NamedSide) \cup {key}
                     /\ NamedSideAfter[key] = call'.qty
               /\ \A k \in (DOMAIN NamedSideAfter) \ {key} :
                     NamedSideAfter[k] = NamedSide[k]
               /\ OppositeSideAfter = OppositeSide
               /\ gaps_detected' = gaps_detected
               /\ last_seq_id' = call'.seq_id
               /\ total_updates' = total_updates + 1]_vars

\* C6 witness: an accepted removal has taken the only bid level (stored with
\* quantity 0 by a snapshot) out of the book.
C6_Witness ==
    /\ call.op = "apply_delta"
    /\ call.ret = TRUE
    /\ call.qty <= 0
    /\ call.is_bid
    /\ bids = EmptyBook
    /\ total_updates = 2
    /\ last_seq_id = 2

\* the levels a snapshot side describes: one per key, with the quantity of the
\* last level given at that key
LevelsOf(levels) ==
    [k \in LevelKeys(levels) |->
        levels[Max({i \in 1..Len(levels) : price_to_key(levels[i].price) = k})].quantity]

\* C7: after apply_snapshot the sides hold exactly the snapshot's levels (no
\* prior level survives), last_seq_id is the snapshot's sequence id,
\* total_updates has grown by 1 and the gap counter is unchanged.
C7_SnapshotReplaces ==
    [][SnapshotMade
        => /\ bids' = LevelsOf(call'.snapshot.bids)
           /\ asks' = LevelsOf(call'.snapshot.asks)
           /\ last_seq_id' = call'.snapshot.seq_id
           /\ total_updates' = total_updates + 1
           /\ gaps_detected' = gaps_detected]_vars

\* C7 witness: a snapshot with one ask, applied as the second call, has left
\* no bid in the book and set the sequence id back to 0.
C7_Witness ==
    /\ call.op = "apply_snapshot"
    /\ Len(call.snapshot.asks) = 1
    /\ total_updates = 2
    /\ bids = EmptyBook
    /\ DOMAIN asks # {}
    /\ last_seq_id = 0

----------------------------------------------------------------------------
(* Claims about the execution engine *)

SubmitMade == call'.op = "submit_order"

\* the key of the call just made was in the idempotency set before the call
KeyWasHeld ==
    \/ call'.req.idempotency_key \in submitted_keys
    \/ call'.req.idempotency_key = OtherHeld

\* the calls of the run that carried key k, and their results
CallsOf(k) == {i \in 1..Len(history) : history[i].key = k}
AcksOf(k) == {i \in CallsOf(k) : history[i].ok}
DuplicatesOf(k) == {i \in CallsOf(k) : ~history[i].ok}

\* C3 as claimed: of two submit_order calls with the same key, exactly one is
\* acknowledged and the other fails as a duplicate, however many keys the set
\* held before the first.
C3_ExactlyOneAck ==
    \A k \in Keys :
        Cardinality(CallsOf(k)) = 2
            => Cardinality(AcksOf(k)) = 1 /\ Cardinality(DuplicatesOf(k)) = 1

\* C8: submit_order with a key the set already holds returns DuplicateOrder,
\* adds exactly 1 to the duplicate counter and leaves the idempotency set, the
\* submitted counter and the fill counter unchanged.
C8_DuplicateRejected ==
    [][(SubmitMade /\ KeyWasHeld)
        => /\ call'.ret.ok = FALSE
           /\ call'.ret.err = "DUPLICATE_ORDER"
           /\ total_duplicates' = total_duplicates + 1
           /\ submitted_keys' = submitted_keys
           /\ other_keys' = other_keys
           /\ total_submitted' = total_submitted
           /\ total_fills' = total_fills]_vars

\* C8 witness: K1 submitted, a fill processed, then K1 submitted again.
C8_Witness ==
    /\ call.op = "submit_order"
    /\ call.req.idempotency_key = "K1"
    /\ call.ret.ok = FALSE
    /\ total_duplicates = 1
    /\ total_submitted = 1
    /\ total_fills = 1
    /\ submitted_keys = {"K1"}

\* C9: while the set is not cleared a key is acknowledged at most once (two
\* acknowledgments of one key have a clearing call at or between them), and
\* the submitted counter is the number of acknowledgments returned.
C9_AtMostOnce ==
    /\ \A k \in Keys : \A i \in AcksOf(k) : \A j \in AcksOf(k) :
          i < j => \E m \in i..j : history[m].cleared
    /\ total_submitted = acks_returned

\* C9 witness: K1 acknowledged once and refused twice, K2 acknowledged, with
\* no clearing call in the run.
C9_Witness ==
    /\ Cardinality(AcksOf("K1")) = 1
    /\ Cardinality(DuplicatesOf("K1")) = 2
    /\ Cardinality(AcksOf("K2")) = 1
    /\ \A i \in 1..Len(history) : ~history[i].cleared
    /\ total_submitted = 2

\* C10: after every submit_order the set holds at most KeyLimit keys; it is
\* emptied exactly when an insertion makes its size exceed KeyLimit, and
\* otherwise no key leaves it.
C10_BoundedSet ==
    [][SubmitMade
        => LET before == KeysLen(submitted_keys, other_keys)
               after == KeysLen(submitted_keys', other_keys')
           IN  /\ after <= KeyLimit
               /\ after = 0 <=> (~KeyWasHeld /\ before + 1 > KeyLimit)
               /\ after # 0 => /\ submitted_keys \subseteq submitted_keys'
                               /\ other_keys <= other_keys']_vars

\* C10 witness: the insertion of K1 into a set of KeyLimit keys has emptied it.
C10_Witness ==
    /\ call.op = "submit_order"
    /\ call.req.idempotency_key = "K1"
    /\ call.ret.ok = TRUE
    /\ KeysLen(submitted_keys, other_keys) = 0
    /\ total_submitted = KeyLimit + 1

----------------------------------------------------------------------------
(* Claims about a book seeded by snapshot, and about the queries *)

\* C11: a gap-free, strictly increasing run of deltas leaves a new book with
\* the same bids, asks and last_seq_id as a book that first took an empty
\* snapshot whose sequence id is one less than the first delta's.
C11_SameAsSeeded ==
    fold_pos >= 1
        => /\ fold_direct.bids = fold_seeded.bids
           /\ fold_direct.asks = fold_seeded.asks
           /\ fold_direct.last_seq_id = fold_seeded.last_seq_id

\* C11 witness: two deltas starting at sequence 2 have been applied to both
\* books and have left a bid and an ask.
C11_Witness ==
    /\ fold_pos = 2
    /\ fold_deltas[1].seq_id = 2
    /\ fold_seeded.total_updates = 3
    /\ fold_direct.total_updates = 2
    /\ DOMAIN fold_direct.bids # {}
    /\ DOMAIN fold_direct.asks # {}
    /\ fold_direct.last_seq_id = 3

QueriesMade == call'.op = "queries"

\* the number of levels of a side whose price is better than price
BetterBids(price) == Cardinality({k \in DOMAIN bids : key_to_price(k) > price})
BetterAsks(price) == Cardinality({k \in DOMAIN asks : key_to_price(k) < price})

\* what depth(n) returned lists the min(n, size) best levels of each side, best
\* first, each with the quantity the book holds
DepthRight(d, n) ==
    /\ Len(d.bids) = Min({n, Cardinality(DOMAIN bids)})
    /\ Len(d.asks) = Min({n, Cardinality(DOMAIN asks)})
    /\ \A i \in 1..Len(d.bids) :
          /\ BetterBids(d.bids[i].price) = i - 1
          /\ \E k \in DOMAIN bids :
                key_to_price(k) = d.bids[i].price /\ bids[k] = d.bids[i].quantity
    /\ \A i \in 1..Len(d.asks) :
          /\ BetterAsks(d.asks[i].price) = i - 1
          /\ \E k \in DOMAIN asks :
                key_to_price(k) = d.asks[i].price /\ asks[k] = d.asks[i].quantity

\* C12: the queries read the book and change none of its fields: best_bid is
\* the highest bid price and best_ask the lowest ask price (undefined on an
\* empty side), mid_price is defined exactly when both sides are non-empty,
\* spread_bps exactly when both are non-empty and the best bid is > 0, and
\* depth(n) lists min(n, size) levels per side, best first.  An accepted bid
\* delta above every bid makes best_bid its (quantized) price, and an accepted
\* removal of the only ask leaves best_ask and mid_price undefined and
\* best_bid as it was.
C12_PureReads ==
    [][/\ QueriesMade
            => /\ DOMAIN bids = {} => call'.best_bid = None
               /\ DOMAIN bids # {} =>
                     /\ call'.best_bid # None
                     /\ \E k \in DOMAIN bids : call'.best_bid[1] = key_to_price(k)
                     /\ \A k \in DOMAIN bids : key_to_price(k) <= call'.best_bid[1]
               /\ DOMAIN asks = {} => call'.best_ask = None
               /\ DOMAIN asks # {} =>
                     /\ call'.best_ask # None
                     /\ \E k \in DOMAIN asks : call'.best_ask[1] = key_to_price(k)
                     /\ \A k \in DOMAIN asks : key_to_price(k) >= call'.best_ask[1]
               /\ call'.mid_price # None <=> (DOMAIN bids # {} /\ DOMAIN asks # {})
               /\ call'.spread_bps # None
                     <=> (DOMAIN bids # {} /\ DOMAIN asks # {}
                            /\ \E k \in DOMAIN bids : key_to_price(k) > 0)
               /\ DepthRight(call'.depth, call'.levels)
               /\ bids' = bids
               /\ asks' = asks
               /\ last_seq_id' = last_seq_id
               /\ total_updates' = total_updates
               /\ gaps_detected' = gaps_detected
       /\ (DeltaMade /\ call'.ret = TRUE /\ call'.is_bid /\ call'.qty > 0
             /\ DOMAIN bids # {}
             /\ \A k \in DOMAIN bids : k < price_to_key(call'.price))
            => /\ best_bid' = Some(key_to_price(price_to_key(call'.price)))
               /\ key_to_price(price_to_key(call'.price)) = call'.price
                     => best_bid' = Some(call'.price)
       /\ (DeltaMade /\ call'.ret = TRUE /\ ~call'.is_bid /\ call'.qty <= 0
             /\ DOMAIN asks = {price_to_key(call'.price)})
            => /\ best_ask' = None
               /\ mid_price' = None
               /\ best_bid' = best_bid]_vars

\* C12 witness: a snapshot with one bid and one ask at sequence 1, a bid delta
\* at sequence 2 and the removal of the ask at sequence 3 were accepted; the
\* queries then returned the higher bid, no best ask, no mid price and both
\* bid levels.
C12_Witness ==
    /\ call.op = "queries"
    /\ call.levels = 2
    /\ total_updates = 3
    /\ accepted_deltas = {2, 3}
    /\ asks = EmptyBook
    /\ DOMAIN bids = {0, 1}
    /\ call.best_bid = Some(2)
    /\ call.best_ask = None
    /\ call.mid_price = None
    /\ Len(call.depth.bids) = 2
    /\ call.depth.bids[1].price = 2

----------------------------------------------------------------------------
(* Claims about the latency tracker *)

RecordMade ==
    call'.op \in {"record_ingestion", "record_processing", "record_publish"}

\* the buffer a record call pushes to, before and after the call
RecordedBuffer ==
    IF call'.op = "record_ingestion" THEN ingestion_samples
    ELSE IF call'.op = "record_processing" THEN processing_samples
    ELSE publish_samples
RecordedBufferAfter ==
    IF call'.op = "record_ingestion" THEN ingestion_samples'
    ELSE IF call'.op = "record_processing" THEN processing_samples'
    ELSE publish_samples'

\* s is the end of t: what is left of t when its oldest elements are dropped
IsSuffix(s, t) ==
    /\ Len(s) <= Len(t)
    /\ s = SubSeq(t, Len(t) - Len(s) + 1, Len(t))

\* C13 as claimed: for every capacity, the buffer a record call pushes to holds
\* at most capacity samples after the call; what it holds is the pushed sample
\* behind the most recent earlier ones, the oldest having been discarded.
C13_BufferBounded ==
    [][RecordMade
        => /\ Len(RecordedBufferAfter) <= capacity
           /\ IsSuffix(RecordedBufferAfter, Append(RecordedBuffer, call'.latency_ns))
           /\ RecordedBufferAfter # << >>
           /\ RecordedBufferAfter[Len(RecordedBufferAfter)] = call'.latency_ns]_vars

PercentileMade == call'.op = "percentile"

\* the number of samples below x, and the number not above x
CountBelow(samples, x) == Cardinality({i \in 1..Len(samples) : samples[i] < x})
CountUpTo(samples, x) == Cardinality({i \in 1..Len(samples) : samples[i] <= x})

\* x stands at index idx (counted from 0) of the ascending-sorted samples
AtSortedIndex(samples, idx, x) ==
    /\ \E i \in 1..Len(samples) : samples[i] = x
    /\ CountBelow(samples, x) <= idx
    /\ idx < CountUpTo(samples, x)

\* C14: percentile(samples, p) is 0 for an empty buffer and otherwise the
\* element at index min(floor(p * n / 100), n - 1) of the ascending-sorted n
\* samples; the call leaves the tracker's buffers as they were; and
\* percentile(samples, 50) <= percentile(samples, 99) for non-empty samples.
C14_Percentile ==
    [][PercentileMade
        => LET samples == call'.buffer
               n == Len(samples)
               floored == (call'.pct * n) \div 100
               idx == IF floored < n - 1 THEN floored ELSE n - 1
           IN  /\ n = 0 => call'.ret = 0
               /\ n > 0 => /\ AtSortedIndex(samples, idx, call'.ret)
                           /\ percentile(samples, 50) <= percentile(samples, 99)
               /\ ingestion_samples' = ingestion_samples
               /\ processing_samples' = processing_samples
               /\ publish_samples' = publish_samples]_vars

\* C14 witness: the 50th percentile of the unsorted buffer <<3, 1>> of a tracker
\* of capacity 2 was taken: index 1 of <<1, 3>>; the buffer is as it was.
C14_Witness ==
    /\ call.op = "percentile"
    /\ capacity = 2
    /\ call.buffer = <<3, 1>>
    /\ call.pct = 50
    /\ call.ret = 3
    /\ ingestion_samples = <<3, 1>>

----------------------------------------------------------------------------
(* Claims about the gateway's tasks *)

\* main has stored running = false and called notify_waiters
ShutdownBroadcast == pc["main"] = "join"

AllStopped == \A t \in Stages : pc[t] = "stopped"

\* C15: once running is false and the wake has been broadcast, every stage
\* (feed, processor, fill, heartbeat) eventually leaves its loop, whatever each
\* stage was doing at the store and at the broadcast, given fair scheduling
\* and timers and receive timeouts that fire.
C15_ShutdownStops == ShutdownBroadcast ~> AllStopped

\* C15 witness: every stage has stopped after a broadcast that woke no
\* notified() future still pending, with a tick left in the channel.
C15_Witness ==
    /\ ShutdownBroadcast
    /\ AllStopped
    /\ notified = {}
    /\ received # << >>
    /\ tick_chan # << >>

\* stage t ends a wait because its timer ticked or its receive timed out, and
\* not because the broadcast woke it (a waiter whose notified() future has been
\* woken may still find the tick ready too; that wait is not counted)
TimedWake(t) ==
    IF t \in Waiters
    THEN pc[t] = "select" /\ t \notin notified /\ pc'[t] = "ticked"
    ELSE pc[t] = "recv" /\ pc'[t] = "check" /\ (t = "proc" => tick_chan = << >>)

\* C16 as claimed: every wait of every stage races the shutdown wake: once the
\* shutdown has been broadcast, no stage sits out a timer tick or a receive
\* timeout before it observes the shutdown.
C16_NoTimedWaitAfterBroadcast ==
    [][ShutdownBroadcast => \A t \in Stages : ~TimedWake(t)]_vars

\* the counters the program keeps
Counters ==
    <<global_seq, ticks_processed, tracker_gaps, nats_published, gaps_detected,
      total_updates>>

\* the feed task's try_send finds the tick channel full
SendFindsFull ==
    /\ pc["feed"] = "send"
    /\ pc'["feed"] # "send"
    /\ pc["proc"] # "stopped"
    /\ Len(tick_chan) = TickCap

\* C17 as claimed: when try_send finds the tick channel full the tick is
\* dropped, a counter is incremented for the drop, the queued ticks are
\* unchanged, and the feed task goes on to wait for its next tick.
C17_DropCounted ==
    [][SendFindsFull
        => /\ tick_chan' = tick_chan
           /\ feed_tick' = NoTick
           /\ pc'["feed"] = "select"
           /\ \E c \in 1..Len(Counters) : Counters'[c] = Counters[c] + 1]_vars

StrictlyIncreasing(ids) ==
    \A i \in 1..Len(ids) : \A j \in 1..Len(ids) : i < j => ids[i] < ids[j]

\* the sequence ids of the ticks queued in the channel, oldest first
QueuedIds == [i \in 1..Len(tick_chan) |-> tick_chan[i].seq_id]

\* C18: the sequence ids the feed task assigns are unique and strictly
\* increasing in assignment order, and the processor receives ticks in
\* strictly increasing sequence-id order: gaps where ticks were dropped, no
\* tick reordered or received twice, every received id an assigned one.
C18_OrderedDelivery ==
    /\ StrictlyIncreasing(stamped)
    /\ StrictlyIncreasing(received \o QueuedIds)
    /\ \A i \in 1..Len(received) : \E j \in 1..Len(stamped) : received[i] = stamped[j]

\* C18 witness: ticks 0 to 3 were assigned, tick 2 met a full channel, and the
\* processor has received 0, 1 and 3.
C18_Witness ==
    /\ stamped = <<0, 1, 2, 3>>
    /\ received = <<0, 1, 3>>

\* the processor has just taken a tick from the channel
TickReceived == Len(received') = Len(received) + 1

\* ticks 0, 1, ..., n have all been delivered, in this order
NoneDropped(ids) == \A i \in 1..Len(ids) : ids[i] = i - 1

\* C19: the processor applies a received tick with sequence n as a bid delta at
\* sequence 2n followed by an ask delta at sequence 2n + 1; while ticks 0, 1,
\* ..., n have all been delivered to the new book, both deltas are accepted
\* and last_seq_id is 2n + 1 after tick n.
C19_TickDeltas ==
    [][TickReceived
        => LET tick == call'.tick
               n == tick.seq_id
           IN  /\ call'.deltas[1] = [price |-> tick.bid_price, qty |-> tick.bid_size,
                                     is_bid |-> TRUE, seq_id |-> 2 * n]
               /\ call'.deltas[2] = [price |-> tick.ask_price, qty |-> tick.ask_size,
                                     is_bid |-> FALSE, seq_id |-> 2 * n + 1]
               /\ NoneDropped(received')
                    => /\ call'.bid_ok
                       /\ call'.ask_ok
                       /\ last_seq_id' = 2 * n + 1
                       /\ total_updates' = total_updates + 2
                       /\ gaps_detected' = gaps_detected
                       /\ tracker_gaps' = tracker_gaps]_vars

\* C19 witness: ticks 0, 1 and 2 were delivered; the book took six deltas and
\* stands at sequence 5.
C19_Witness ==
    /\ received = <<0, 1, 2>>
    /\ call.op = "process_tick"
    /\ call.tick.seq_id = 2
    /\ call.bid_ok
    /\ call.ask_ok
    /\ last_seq_id = 5
    /\ total_updates = 6
    /\ gaps_detected = 0

----------------------------------------------------------------------------
(* Claims about fills *)

FillMade == call'.op = "process_fill"

\* C20: the k-th process_fill call on an engine returns a fill with seq_id = k
\* and makes the fill counter that stats reports k; the fill carries the
\* request's quantity and price; the idempotency set, the submitted counter
\* and the duplicate counter are unchanged.
C20_FillSequence ==
    [][FillMade
        => LET k == fill_calls + 1
           IN  /\ call'.ret.seq_id = k
               /\ stats'[3] = k
               /\ call'.ret.filled_qty = call'.req.quantity
               /\ call'.ret.fill_price = call'.req.price
               /\ submitted_keys' = submitted_keys
               /\ other_keys' = other_keys
               /\ stats'[1] = stats[1]
               /\ stats'[2] = stats[2]]_vars

\* C20 witness: the second fill of an engine that has acknowledged K1 and
\* refused it once.
C20_Witness ==
    /\ call.op = "process_fill"
    /\ call.ret.seq_id = 2
    /\ call.ret.filled_qty = 2
    /\ call.ret.fill_price = 3
    /\ stats = <<1, 1, 2>>
    /\ submitted_keys = {"K1"}

----------------------------------------------------------------------------
(* Claims about draining *)

\* the sequence numbers assigned since running was set to false
StampedSinceStop == Len(stamped) - at_stop.stamped

\* the ticks the processor has received since running was set to false
ReceivedSinceStop == Len(received) - at_stop.received

\* C21: once running is false, the feed task assigns at most one further
\* sequence number and the processor receives at most one further tick; after
\* the processor has left its loop nothing is received and the ticks queued in
\* the channel stay there.
C21_DrainsOneUnit ==
    [][/\ ~running' => /\ StampedSinceStop' <= 1
                       /\ ReceivedSinceStop' <= 1
       /\ pc["proc"] = "stopped" => /\ received' = received
                                    /\ tick_chan' = tick_chan]_vars

\* C21 witness: since running was set to false the feed task has assigned one
\* more sequence number and the processor has received one more tick; both
\* have left their loops, and a tick that was queued at the time is still
\* queued.
C21_Witness ==
    /\ ~running
    /\ StampedSinceStop = 1
    /\ ReceivedSinceStop = 1
    /\ pc["feed"] = "stopped"
    /\ pc["proc"] = "stopped"
    /\ tick_chan # << >>
    /\ Head(tick_chan).seq_id < at_stop.stamped

----------------------------------------------------------------------------
(* Claims about stored quantities *)

\* every level a side holds has a quantity above zero
AllPositive(book) == \A key \in DOMAIN book : book[key] > 0

\* C22: in every reachable book state, after any sequence of apply_snapshot
\* and apply_delta calls, every level stored on either side has quantity > 0.
C22_StoredPositive == AllPositive(bids) /\ AllPositive(asks)

----------------------------------------------------------------------------
(* Claims about the book behind a dropped tick *)

\* the elements of a sequence
Elems(seq) == {seq[i] : i \in 1..Len(seq)}

\* the sequence id of the tick the feed task holds, if it holds one
HeldIds == IF feed_tick = NoTick THEN {} ELSE {feed_tick.seq_id}

\* the sequence ids of the ticks that were stamped and sent, and reached neither
\* the channel nor the processor
DroppedIds == Elems(stamped) \ (Elems(received) \cup Elems(QueuedIds) \cup HeldIds)

\* the book is as it was
BookFrozen ==
    /\ bids' = bids
    /\ asks' = asks
    /\ last_seq_id' = last_seq_id

\* C23 as stated: from the moment a tick has been dropped the order book is
\* never updated again.
C23_FrozenOnceDropped == [][DroppedIds # {} => BookFrozen]_vars

\* C23: every tick the processor receives with a sequence id above that of a
\* dropped tick has both its deltas rejected and leaves bids, asks and
\* last_seq_id as they were, which is as the tick just below the first
\* dropped one left them; the ticks queued before the drop are still applied.
C23_FrozenBehindDrop ==
    [][TickReceived /\ (\E d \in DroppedIds : d < call'.tick.seq_id)
        => /\ ~call'.bid_ok
           /\ ~call'.ask_ok
           /\ BookFrozen
           /\ last_seq_id = AskSeq(Min(DroppedIds) - 1)
           /\ gaps_detected' = gaps_detected + 2]_vars

\* C23 witness: tick 2 was dropped while ticks 0 and 1 were queued; the
\* processor applied ticks 0 and 1 after the drop, then received tick 3 and
\* rejected both its deltas, the book standing at tick 1's ask delta.
C23_Witness ==
    /\ call.op = "process_tick"
    /\ call.tick.seq_id = 3
    /\ ~call.bid_ok
    /\ ~call.ask_ok
    /\ received = <<0, 1, 3>>
    /\ last_seq_id = AskSeq(1)
    /\ total_updates = 4
    /\ gaps_detected = 2

----------------------------------------------------------------------------
(* Claims about the two deltas of a tick *)

====
